---- MODULE Spec2Model ----
(***************************************************************************)
(* Model of src/src/tx_builder/mod.rs: the fee oracle tx_fee and the       *)
(* capacity balancer balance_tx_capacity, one action per return path or    *)
(* loop pass of the balancer.                                              *)
(*                                                                         *)
(* Option<T> is a sequence of length 0 (None) or 1 (Some(x)).  Byte blobs  *)
(* (script args, witnesses, cell data) are sequences of bytes.  An         *)
(* OutPoint is a natural number, which also serves as its tx_hash.         *)
(* lock_script_idx is 0-based as in the source; sequences are 1-based, so  *)
(* lock_scripts[lock_script_idx] of the source reads                       *)
(* lock_scripts[lock_script_idx + 1] here.                                 *)
(***************************************************************************)
EXTENDS Integers, Sequences, FiniteSets, TLC

(***************************************************************************)
(* Bounds of the model.                                                    *)
(* BYTE_SHANNONS is the price of one byte of occupied capacity.  On chain  *)
(* it is 10^8 shannons; TLC's integers are 32 bits wide, so the model      *)
(* prices a byte lower.  No branch of the source reads the price itself.   *)
(* MaxLive bounds the number of live cells the collector holds.            *)
(* CapacityModulus is the number of values of a capacity word: 2^64 in the *)
(* source (u64), 2^24 here for the same reason; the largest capacity is    *)
(* CapacityModulus - 1.                                                    *)
(***************************************************************************)
BYTE_SHANNONS == 1000
MaxLive == 2
CapacityModulus == 16777216

None == <<>>
Some(x) == <<x>>
IsSome(o) == o # <<>>
Unwrap(o) == o[1]

Rep(b, n) == [i \in 1..n |-> b]

(***************************************************************************)
(* crate::constants (line 20) and the hash of the ordinary sighash lock.   *)
(***************************************************************************)
DAO_TYPE_HASH == "dao"
MULTISIG_TYPE_HASH == "multisig"
SIGHASH_TYPE_HASH == "sighash"

Script(code_hash, args) == [code_hash |-> code_hash, hash_type |-> "type", args |-> args]
ScriptId(script) == [code_hash |-> script.code_hash, hash_type |-> script.hash_type]
CellOutput(capacity, lock, type) == [capacity |-> capacity, lock |-> lock, type_ |-> type]
CellInput(out_point, since) == [previous_output |-> out_point, since |-> since]

\* u64::from_le_bytes over a byte sequence (lines 198-202, 485-487)
RECURSIVE from_le_bytes(_)
from_le_bytes(bytes) ==
    IF bytes = <<>> THEN 0 ELSE Head(bytes) + 256 * from_le_bytes(Tail(bytes))

(***************************************************************************)
(* The scripts the runs are built from.                                    *)
(***************************************************************************)
LockA == Script(SIGHASH_TYPE_HASH, Rep(1, 20))
LockC == Script(SIGHASH_TYPE_HASH, Rep(2, 20))
LockB == Script(MULTISIG_TYPE_HASH, Rep(3, 20) \o <<5, 0, 0, 0, 0, 0, 0, 0>>)
LockR == Script(SIGHASH_TYPE_HASH, Rep(9, 20))
DaoType == Script(DAO_TYPE_HASH, <<>>)

PlaceholderA == <<65, 65, 65, 65>>
PlaceholderA2 == <<97, 97>>
PlaceholderB == <<66, 66, 66, 66, 66, 66>>
PlaceholderC == <<67, 67, 67>>

(***************************************************************************)
(* Molecule sizes.  A table is 4 bytes of length, 4 bytes of offset per    *)
(* field and the fields; a dynvec is 4 bytes of length, 4 per item and the *)
(* items; a fixvec is 4 bytes of count and the items; Bytes is a fixvec of *)
(* bytes.  CellDep is 37 bytes, CellInput 44, Byte32 32.                   *)
(***************************************************************************)
BytesSize(b) == 4 + Len(b)
ScriptSize(s) == 4 + 3 * 4 + 32 + 1 + BytesSize(s.args)
ScriptOptSize(o) == IF IsSome(o) THEN ScriptSize(Unwrap(o)) ELSE 0
CellOutputSize(o) == 4 + 3 * 4 + 8 + ScriptSize(o.lock) + ScriptOptSize(o.type_)

RECURSIVE SumOutputSizes(_)
SumOutputSizes(outs) ==
    IF outs = <<>> THEN 0 ELSE CellOutputSize(Head(outs)) + SumOutputSizes(Tail(outs))

RECURSIVE SumBytesSizes(_)
SumBytesSizes(bs) ==
    IF bs = <<>> THEN 0 ELSE BytesSize(Head(bs)) + SumBytesSizes(Tail(bs))

RawTransactionSize(t) ==
    4 + 6 * 4
    + 4
    + (4 + 37 * Len(t.cell_deps))
    + (4 + 32 * Len(t.header_deps))
    + (4 + 44 * Len(t.inputs))
    + (4 + 4 * Len(t.outputs) + SumOutputSizes(t.outputs))
    + (4 + 4 * Len(t.outputs_data) + SumBytesSizes(t.outputs_data))

TransactionSize(t) ==
    4 + 2 * 4 + RawTransactionSize(t)
    + (4 + 4 * Len(t.witnesses) + SumBytesSizes(t.witnesses))

\* line 361: the transaction and its 4-byte offset in the block's vector
serialized_size_in_block(t) == TransactionSize(t) + 4

\* FeeRate::fee (lines 362, 389-392): shannons per 1000 bytes, truncating
FeeRate_fee(fee_rate, size) == (fee_rate * size) \div 1000

\* Script::occupied_capacity and CellOutput::occupied_capacity (lines 215-217, 312-315)
ScriptOccupied(s) == Len(s.args) + 32 + 1
occupied_capacity(o, data_len) ==
    (8 + ScriptOccupied(o.lock)
       + (IF IsSome(o.type_) THEN ScriptOccupied(Unwrap(o.type_)) ELSE 0)
       + data_len) * BYTE_SHANNONS

\* TransactionView::outputs_capacity (line 229)
RECURSIVE outputs_capacity(_)
outputs_capacity(outs) ==
    IF outs = <<>> THEN 0 ELSE Head(outs).capacity + outputs_capacity(Tail(outs))

(***************************************************************************)
(* The chain as the TransactionDependencyProvider shows it: the cells that *)
(* out points resolve to.  Out points 1..6 are plain cells (no type, no    *)
(* data), 7 is a DAO cell whose 8 bytes of data name deposit block 7, 8 is *)
(* a plain cell of the largest capacity, and any other out point does not  *)
(* resolve.                                                                *)
(***************************************************************************)
ChainCells ==
    [op \in 1..8 |->
        CASE op = 1 -> [output |-> CellOutput(100300, LockA, None), data |-> <<>>]
          [] op = 2 -> [output |-> CellOutput(50000, LockA, None), data |-> <<>>]
          [] op = 3 -> [output |-> CellOutput(200000, LockA, None), data |-> <<>>]
          [] op = 4 -> [output |-> CellOutput(120000, LockB, None), data |-> <<>>]
          [] op = 5 -> [output |-> CellOutput(200000, LockB, None), data |-> <<>>]
          [] op = 6 -> [output |-> CellOutput(200000, LockC, None), data |-> <<>>]
          [] op = 7 -> [output |-> CellOutput(150000, LockR, Some(DaoType)),
                        data |-> <<7, 0, 0, 0, 0, 0, 0, 0>>]
          [] op = 8 -> [output |-> CellOutput(CapacityModulus - 1, LockR, None),
                        data |-> <<>>]]
UnknownOutPoint == 9

\* TransactionDependencyProvider::get_cell / get_cell_data (lines 174, 196, 339);
\* None stands for Err(TransactionDependencyError)
get_cell(out_point) ==
    IF out_point \in DOMAIN ChainCells THEN Some(ChainCells[out_point].output) ELSE None
get_cell_data(out_point) ==
    IF out_point \in DOMAIN ChainCells THEN Some(ChainCells[out_point].data) ELSE None

(***************************************************************************)
(* HeaderDepResolver: by_tx and by_number are functions from the hashes    *)
(* and numbers that resolve to headers; a header is its accumulated rate.  *)
(***************************************************************************)
Header(ar) == [ar |-> ar]
resolve_by_tx(resolver, tx_hash) ==
    IF tx_hash \in DOMAIN resolver.by_tx THEN Some(resolver.by_tx[tx_hash]) ELSE None
resolve_by_number(resolver, number) ==
    IF number \in DOMAIN resolver.by_number THEN Some(resolver.by_number[number]) ELSE None

AllHeaders == [by_tx |-> [h \in {7} |-> Header(103)], by_number |-> [n \in {7} |-> Header(100)]]
NoPrepareHeader == [by_tx |-> <<>>, by_number |-> [n \in {7} |-> Header(100)]]
NoDepositHeader == [by_tx |-> [h \in {7} |-> Header(103)], by_number |-> <<>>]

\* crate::util::calculate_dao_maximum_withdraw4 (lines 218-223): the counted
\* capacity grows by the ratio of the accumulated rates, truncating
calculate_dao_maximum_withdraw4(deposit_header, prepare_header, output, occupied) ==
    ((output.capacity - occupied) * prepare_header.ar) \div deposit_header.ar + occupied

(***************************************************************************)
(* tx_fee (lines 165-233).  A result is [tag, value]: Ok(fee),             *)
(* CapacityOverflow(delta), TxDep(out point), HeaderDep(hash or number),   *)
(* or Panic for the failed assert_eq of line 197.                          *)
(***************************************************************************)
FeeResult(tag, value) == [tag |-> tag, value |-> value]

\* mutant of IsWithdraw: since is not looked at
IsWithdraw_AnySince(since, cell) ==
    /\ IsSome(cell.type_)
    /\ Unwrap(cell.type_).code_hash = DAO_TYPE_HASH
\* lines 175-181
IsWithdraw(since, cell) ==
    /\ since # 0
    /\ IsSome(cell.type_)
    /\ Unwrap(cell.type_).code_hash = DAO_TYPE_HASH

\* lines 183-223: the value of a DAO withdrawal input
WithdrawCapacity(input, cell, resolver) ==
    LET tx_hash == input.previous_output
        prepare_header == resolve_by_tx(resolver, tx_hash)
        data == get_cell_data(input.previous_output)
    IN  IF prepare_header = None THEN FeeResult("HeaderDep", tx_hash)
        ELSE IF data = None THEN FeeResult("TxDep", input.previous_output)
        ELSE IF Len(Unwrap(data)) # 8 THEN FeeResult("Panic", Len(Unwrap(data)))
        ELSE LET deposit_number == from_le_bytes(Unwrap(data))
                 deposit_header == resolve_by_number(resolver, deposit_number)
             IN  IF deposit_header = None THEN FeeResult("HeaderDep", deposit_number)
                 ELSE FeeResult("Ok",
                        calculate_dao_maximum_withdraw4(
                            Unwrap(deposit_header), Unwrap(prepare_header), cell,
                            occupied_capacity(cell, Len(Unwrap(data)))))

\* lines 172-226: one turn of the loop over the inputs
InputCapacity(input, resolver) ==
    LET cell == get_cell(input.previous_output)
    IN  IF cell = None THEN FeeResult("TxDep", input.previous_output)
        ELSE IF IsWithdraw(input.since, Unwrap(cell))
             THEN WithdrawCapacity(input, Unwrap(cell), resolver)
             ELSE FeeResult("Ok", Unwrap(cell).capacity)

\* The build: TRUE when the crate is compiled with overflow checks (the dev profile),
\* where `+` and `+=` on u64 panic on overflow, FALSE when without them (the release
\* profile), where they wrap around.
VARIABLE overflow_checks

\* u64 `+`: whether the sum leaves the word, and the sum of a build that wraps
Overflows(a, b) == a + b >= CapacityModulus
wrapping_add(a, b) == (a + b) % CapacityModulus

\* lines 170-228; `input_total += capacity` of line 227 is a plain `+=`: a build with
\* overflow checks panics, the other wraps
RECURSIVE InputTotal(_, _, _)
InputTotal(ins, resolver, input_total) ==
    IF ins = <<>> THEN FeeResult("Ok", input_total)
    ELSE LET capacity == InputCapacity(Head(ins), resolver)
         IN  IF capacity.tag # "Ok" THEN capacity
             ELSE IF overflow_checks /\ Overflows(input_total, capacity.value)
             THEN FeeResult("Panic", input_total)
             ELSE InputTotal(Tail(ins), resolver, wrapping_add(input_total, capacity.value))

\* lines 230-232
CheckedSub(input_total, output_total) ==
    IF input_total >= output_total
    THEN FeeResult("Ok", input_total - output_total)
    ELSE FeeResult("CapacityOverflow", output_total - input_total)

\* line 229: outputs_capacity()? adds checked and returns Err(CapacityError) on overflow
tx_fee(t, resolver) ==
    LET input_total == InputTotal(t.inputs, resolver, 0)
    IN  IF input_total.tag # "Ok" THEN input_total
        ELSE IF outputs_capacity(t.outputs) >= CapacityModulus
        THEN FeeResult("CapacityError", 0)
        ELSE CheckedSub(input_total.value, outputs_capacity(t.outputs))

(***************************************************************************)
(* CellCollector (crate::traits).  The collector holds the live cells in   *)
(* the order it returns them and the set of out points it has reserved.    *)
(* A query names the lock, the data length and min_total_capacity; cells   *)
(* with a type script do not match.  It returns the shortest run of        *)
(* matching cells whose capacities reach min_total_capacity, or all of     *)
(* them when they do not reach it.  A collector that fails returns         *)
(* Err(CellCollectorError) from every call.                                *)
(***************************************************************************)
CellQueryOptions_new_lock(lock) == [lock |-> lock, data_len |-> None, min_total_capacity |-> 1]

MatchCell(query, out_point) ==
    LET cell == ChainCells[out_point]
    IN  /\ cell.output.lock = query.lock
        /\ cell.output.type_ = None
        /\ (IsSome(query.data_len) => Len(cell.data) = Unwrap(query.data_len))

RECURSIVE TakeUntil(_, _, _)
TakeUntil(cells, min_total, total) ==
    IF cells = <<>> \/ total >= min_total THEN <<>>
    ELSE <<Head(cells)>>
         \o TakeUntil(Tail(cells), min_total, total + ChainCells[Head(cells)].output.capacity)

collect_live_cells(collector, query, reserve) ==
    LET matching == SelectSeq(collector.live,
                        LAMBDA op : op \notin collector.reserved /\ MatchCell(query, op))
        cells == TakeUntil(matching, query.min_total_capacity, 0)
    IN  [error |-> collector.fails,
         cells |-> cells,
         collector |-> IF reserve
                       THEN [collector EXCEPT !.reserved = @ \cup {cells[i] : i \in 1..Len(cells)}]
                       ELSE collector]

(***************************************************************************)
(* CellDepResolver: a function from the ScriptIds that resolve to their    *)
(* cell-deps.                                                              *)
(***************************************************************************)
DepSighash == "dep_sighash"
DepMultisig == "dep_multisig"
FullResolver ==
    [id \in {ScriptId(LockA), ScriptId(LockB)} |->
        IF id = ScriptId(LockA) THEN DepSighash ELSE DepMultisig]
SighashResolver == [id \in {ScriptId(LockA)} |-> DepSighash]
resolve(resolver, script_id) ==
    IF script_id \in DOMAIN resolver THEN Some(resolver[script_id]) ELSE None

(***************************************************************************)
(* The state: the arguments of balance_tx_capacity (lines 295-302), its    *)
(* locals (lines 317-328), the place in the function (pc), its return      *)
(* value (result) and what the last pass of the loop observed (last_pass). *)
(***************************************************************************)
VARIABLES tx, balancer, cell_collector, cell_dep_resolver, header_dep_resolver,
          lock_scripts, lock_script_idx, cell_deps, inputs, change_output, witnesses,
          pc, result, last_pass

\* The public function that was called (entry), the step it is at (stage), the
\* unlockers it was given, what the recipe's build_base returns (build_base), the steps
\* that ran with their results (steps), and the locals of fill_placeholder_witnesses
\* and unlock_tx: the transaction they update (driver_tx), the groups of
\* gen_script_groups (script_groups), the lock groups the loop has visited (visited),
\* the list they return (not_matched), the unlocker calls they made (unlocker_calls)
\* and the value the entry returns (outcome).
VARIABLES entry, stage, unlockers, build_base, steps, driver_tx, script_groups, visited,
          not_matched, unlocker_calls, outcome

args == <<tx, balancer, cell_dep_resolver, header_dep_resolver, overflow_checks>>
locals == <<lock_scripts, lock_script_idx, cell_deps, inputs, change_output, witnesses>>
driver == <<entry, stage, unlockers, build_base, steps, driver_tx, script_groups, visited,
            not_matched, unlocker_calls, outcome>>
vars == <<tx, balancer, cell_collector, cell_dep_resolver, header_dep_resolver,
          lock_scripts, lock_script_idx, cell_deps, inputs, change_output, witnesses,
          pc, result, last_pass, overflow_checks, driver>>

EmptyTx ==
    [cell_deps |-> <<>>, header_deps |-> <<>>, inputs |-> <<>>, outputs |-> <<>>,
     outputs_data |-> <<>>, witnesses |-> <<>>]

\* Result<TransactionView, BalanceTxCapacityError> (lines 252-274, 302)
Pending == [tag |-> "Pending", tx |-> EmptyTx, err |-> "", msg |-> "", value |-> 0]
Ok(t) == [tag |-> "Ok", tx |-> t, err |-> "", msg |-> "", value |-> 0]
Err(err, msg, value) == [tag |-> "Err", tx |-> EmptyTx, err |-> err, msg |-> msg, value |-> value]

NoPass == [branch |-> "", lock_script_idx |-> 0, fee_result |-> FeeResult("", 0),
           min_fee |-> 0, calls |-> <<>>]

(***************************************************************************)
(* The arguments the runs are started with.                                *)
(***************************************************************************)
SeedInputs ==
    { <<>>,
      <<CellInput(2, 0)>>,
      <<CellInput(7, 0)>>,
      <<CellInput(7, 5)>>,
      <<CellInput(UnknownOutPoint, 0)>> }
SeedWitnesses == { <<>>, <<PlaceholderA>> }
SeedCellDeps == { <<>>, <<DepSighash>> }
SeedTxs ==
    { [cell_deps |-> cd, header_deps |-> <<>>, inputs |-> ins,
       outputs |-> <<CellOutput(100000, LockR, None)>>, outputs_data |-> << <<>> >>,
       witnesses |-> ws] :
        cd \in SeedCellDeps, ins \in SeedInputs, ws \in SeedWitnesses }

CapacityProviders ==
    { <<>>,
      << <<LockA, PlaceholderA>> >>,
      << <<LockA, PlaceholderA>>, <<LockB, PlaceholderB>> >>,
      << <<LockB, PlaceholderB>>, <<LockA, PlaceholderA>> >>,
      << <<LockA, PlaceholderA>>, <<LockA, PlaceholderA2>>, <<LockB, PlaceholderB>> >>,
      << <<LockA, PlaceholderA>>, <<LockC, PlaceholderC>> >> }
FeeRates == {1000, 1500}
ChangeLockScripts == {None, Some(LockB)}
ForceSmallChangeAsFee == {None, Some(300), Some(50000)}
Balancers ==
    { [fee_rate |-> r, capacity_provider |-> p, change_lock_script |-> c,
       force_small_change_as_fee |-> f] :
        r \in FeeRates, p \in CapacityProviders, c \in ChangeLockScripts,
        f \in ForceSmallChangeAsFee }

\* the out points of a set, in ascending order
RECURSIVE Ascending(_)
Ascending(S) ==
    IF S = {} THEN <<>>
    ELSE LET m == CHOOSE x \in S : \A y \in S : x <= y
         IN  <<m>> \o Ascending(S \ {m})
\* the plain cells locked by a lock of the provider; no query of a run matches another
ProviderCells(provider) ==
    {op \in 1..6 : \E i \in 1..Len(provider) : ChainCells[op].output.lock = provider[i][1]}
\* the collectors that hold at most MaxLive of these cells, none reserved, and one
\* collector that fails
Collectors(provider) ==
    { [live |-> Ascending(S), reserved |-> {}, fails |-> FALSE] :
        S \in {T \in SUBSET ProviderCells(provider) : Cardinality(T) <= MaxLive} }
    \cup { [live |-> <<>>, reserved |-> {}, fails |-> TRUE] }

\* balance_tx_capacity called by itself: nothing of the drivers runs
NoGroups == [tag |-> "", lock_groups |-> <<>>, type_groups |-> <<>>, value |-> 0]
DirectCall ==
    /\ entry = "balance_tx_capacity"
    /\ stage = "balance_tx_capacity"
    /\ unlockers = <<>>
    /\ build_base = Pending
    /\ steps = <<>>
    /\ driver_tx = EmptyTx
    /\ script_groups = NoGroups
    /\ visited = {}
    /\ not_matched = <<>>
    /\ unlocker_calls = <<>>
    /\ outcome = Pending

HasWithdraw(t) ==
    \E i \in 1..Len(t.inputs) :
        /\ get_cell(t.inputs[i].previous_output) # None
        /\ IsWithdraw(t.inputs[i].since, Unwrap(get_cell(t.inputs[i].previous_output)))

\* No sum of these runs reaches CapacityModulus, so the two builds run them alike.
Init ==
    /\ tx \in SeedTxs
    /\ overflow_checks = FALSE
    /\ balancer \in Balancers
    /\ cell_collector \in Collectors(balancer.capacity_provider)
    /\ cell_dep_resolver \in {FullResolver, SighashResolver}
    /\ header_dep_resolver \in
         IF HasWithdraw(tx) THEN {AllHeaders, NoPrepareHeader, NoDepositHeader}
         ELSE {AllHeaders}
    /\ lock_scripts = <<>>
    /\ lock_script_idx = 0
    /\ cell_deps = <<>>
    /\ inputs = <<>>
    /\ change_output = None
    /\ witnesses = <<>>
    /\ pc = "start"
    /\ result = Pending
    /\ last_pass = NoPass
    /\ DirectCall

(***************************************************************************)
(* balance_tx_capacity, before the loop (lines 303-328).                   *)
(***************************************************************************)
\* lines 307-310
ChangeLockScript(b) ==
    IF IsSome(b.change_lock_script) THEN Unwrap(b.change_lock_script)
    ELSE b.capacity_provider[1][1]
\* line 311: a cell output with the change lock and the default capacity 0
base_change_output == CellOutput(0, ChangeLockScript(balancer), None)
\* lines 312-315
base_change_occupied_capacity == occupied_capacity(base_change_output, 0)

\* lines 317-323: remove duplicated lock script, the first occurrence stays
RECURSIVE RemoveDuplicated(_, _)
RemoveDuplicated(provider, kept) ==
    IF provider = <<>> THEN kept
    ELSE RemoveDuplicated(Tail(provider),
            IF \A i \in 1..Len(kept) : kept[i][1] # Head(provider)[1]
            THEN Append(kept, Head(provider)) ELSE kept)

Start ==
    /\ pc = "start"
    /\ IF balancer.capacity_provider = <<>>
       THEN /\ pc' = "done"
            /\ result' = Err("EmptyCapacityProvider", "", 0)
            /\ UNCHANGED lock_scripts
       ELSE /\ pc' = "loop"
            /\ result' = result
            /\ lock_scripts' = RemoveDuplicated(balancer.capacity_provider, <<>>)
    /\ UNCHANGED <<args, driver, cell_collector, lock_script_idx, cell_deps, inputs,
                   change_output, witnesses, last_pass>>

(***************************************************************************)
(* One pass of the loop, up to the match on the fee (lines 330-365).       *)
(***************************************************************************)
lock_script == lock_scripts[lock_script_idx + 1][1]
placeholder_witness == lock_scripts[lock_script_idx + 1][2]
\* lines 331-335
base_query == [CellQueryOptions_new_lock(lock_script) EXCEPT !.data_len = Some(0)]

\* lines 338-339: the seed's inputs, then the balancer's
AllInputs == tx.inputs \o inputs
Unresolved == {i \in 1..Len(AllInputs) : get_cell(AllInputs[i].previous_output) = None}
\* lines 337-343
has_provider ==
    \E i \in 1..Len(AllInputs) :
        Unwrap(get_cell(AllInputs[i].previous_output)).lock = lock_script

\* mutant of PadWitnesses: no padding
PadWitnesses_None(ws, seed_witnesses, input_count) == ws
\* lines 344-348: pad with empty witnesses up to the number of inputs
RECURSIVE PadWitnesses(_, _, _)
PadWitnesses(ws, seed_witnesses, input_count) ==
    IF seed_witnesses + Len(ws) < input_count
    THEN PadWitnesses(Append(ws, <<>>), seed_witnesses, input_count)
    ELSE ws

\* mutant of NewTx: the balancer's inputs come before the seed's
NewTx_BalancerFirst(seed, deps, ins, ws, change) ==
    [cell_deps |-> seed.cell_deps \o deps,
     header_deps |-> seed.header_deps,
     inputs |-> ins \o seed.inputs,
     outputs |-> seed.outputs \o change,
     outputs_data |-> seed.outputs_data \o (IF IsSome(change) THEN << <<>> >> ELSE <<>>),
     witnesses |-> seed.witnesses \o ws]
\* lines 349-360: the builder appends to the seed's lists
NewTx(seed, deps, ins, ws, change) ==
    [cell_deps |-> seed.cell_deps \o deps,
     header_deps |-> seed.header_deps,
     inputs |-> seed.inputs \o ins,
     outputs |-> seed.outputs \o change,
     outputs_data |-> seed.outputs_data \o (IF IsSome(change) THEN << <<>> >> ELSE <<>>),
     witnesses |-> seed.witnesses \o ws]

\* lines 361-365: the locals of a pass that the match reads
Measure(candidate, padded) ==
    [witnesses |-> padded,
     new_tx |-> candidate,
     tx_size |-> serialized_size_in_block(candidate),
     min_fee |-> FeeRate_fee(balancer.fee_rate, serialized_size_in_block(candidate)),
     fee_result |-> tx_fee(candidate, header_dep_resolver)]
Candidate(padded) == Measure(NewTx(tx, cell_deps, inputs, padded, change_output), padded)
\* lines 344-365 in the current state
Pass == Candidate(PadWitnesses(witnesses, Len(tx.witnesses), Len(tx.inputs) + Len(inputs)))

\* mutant of FeeBalanced: the first arm also takes a fee above the minimum
FeeBalanced_AtLeast(fee, min_fee) == fee >= min_fee
\* the arms of the match (lines 367, 370, 440)
FeeBalanced(fee, min_fee) == fee = min_fee
FeeAbove(fee, min_fee) == fee > min_fee
\* mutant of Delta: the whole fee is taken for the surplus
Delta_Fee(p) == p.fee_result.value
\* line 371
Delta(p) == p.fee_result.value - p.min_fee
\* lines 388-392
output_header_extra == 4 + 4 + 4
extra_min_fee ==
    FeeRate_fee(balancer.fee_rate, CellOutputSize(base_change_output) + output_header_extra)
\* mutant of EnoughForChange: the occupied capacity is left out of the test
EnoughForChange_NoFloor(delta, occupied, extra) == delta >= extra
\* line 394
EnoughForChange(delta, occupied, extra) == delta >= occupied + extra
\* mutant of NewCapacity: the surplus is not added
NewCapacity_Unchanged(old_capacity, delta) == old_capacity
\* lines 374-379
NewCapacity(old_capacity, delta) == old_capacity + delta
\* mutant of IsLastProvider: the index is compared with the length itself
IsLastProvider_OffByOne(idx, n) == idx = n
\* lines 417, 456
IsLastProvider(idx, n) == idx + 1 = n
\* lines 423, 462
NextProvider(idx) == idx + 1

\* lines 406-408: the peek
more_cells_peek == collect_live_cells(cell_collector, base_query, FALSE).cells
\* lines 407, 454: the `?` of a collector call
CollectorFails == collect_live_cells(cell_collector, base_query, FALSE).error

Call(query, reserve, cells) == [query |-> query, reserve |-> reserve, cells |-> cells]
PassOf(p, branch, calls) ==
    [branch |-> branch, lock_script_idx |-> lock_script_idx, fee_result |-> p.fee_result,
     min_fee |-> p.min_fee, calls |-> calls]

InLoop == pc = "loop" /\ lock_script_idx < Len(lock_scripts)
FeeOk(p) == Unresolved = {} /\ p.fee_result.tag = "Ok"
\* fee > min_fee, no change cell, and the surplus cannot hold one (lines 370, 381, 404)
SmallSurplus(p) ==
    /\ FeeOk(p)
    /\ ~FeeBalanced(p.fee_result.value, p.min_fee)
    /\ FeeAbove(p.fee_result.value, p.min_fee)
    /\ change_output = None
    /\ ~EnoughForChange(Delta(p), base_change_occupied_capacity, extra_min_fee)

\* a return statement: the locals keep their values, witnesses is padded
Return(p, r, branch, calls) ==
    /\ pc' = "done"
    /\ result' = r
    /\ witnesses' = p.witnesses
    /\ last_pass' = PassOf(p, branch, calls)
    /\ UNCHANGED <<args, driver, cell_collector, lock_scripts, lock_script_idx, cell_deps, inputs,
                   change_output>>

(***************************************************************************)
(* The "need more capacity" part of a pass (lines 448-497), entered with   *)
(* the change output the match left behind.                                *)
(***************************************************************************)
\* mutant of NotInSeed: the seed's cell-deps are not looked at
NotInSeed_Always(seed_deps, provider_cell_dep) == TRUE
\* lines 471-475
NotInSeed(seed_deps, provider_cell_dep) ==
    \A i \in 1..Len(seed_deps) : seed_deps[i] # provider_cell_dep
\* lines 471-477
PushCellDep(deps, seed_deps, provider_cell_dep) ==
    IF NotInSeed(seed_deps, provider_cell_dep) THEN Append(deps, provider_cell_dep) ELSE deps
\* line 466
ResolvesCellDep(deps) == deps = <<>>
\* mutant of PushPlaceholder: has_provider is not looked at
PushPlaceholder_Always(ws, provider_in_inputs, placeholder) == Append(ws, placeholder)
\* lines 479-481
PushPlaceholder(ws, provider_in_inputs, placeholder) ==
    IF ~provider_in_inputs THEN Append(ws, placeholder) ELSE ws
\* mutant of Since: the args of the lock are not read
Since_Zero(lock) == 0
\* lines 482-491
Since(lock) ==
    IF lock.code_hash = MULTISIG_TYPE_HASH /\ Len(lock.args) = 28
    THEN from_le_bytes(SubSeq(lock.args, 21, 28))
    ELSE 0
\* mutant of ExtendInputs: the new inputs are put in front
ExtendInputs_Front(ins, more_cells, since) ==
    [i \in 1..Len(more_cells) |-> CellInput(more_cells[i], since)] \o ins
\* lines 492-496
ExtendInputs(ins, more_cells, since) ==
    ins \o [i \in 1..Len(more_cells) |-> CellInput(more_cells[i], since)]

\* mutant of NoMoreCells: a single cell counts as none
NoMoreCells_Short(more_cells) == Len(more_cells) <= 1
\* line 455: more_cells.is_empty()
NoMoreCells(more_cells) == more_cells = <<>>

\* lines 455-497, given the cells of the reserving call and the resolver's answer:
\* how the pass ends and the locals it leaves
Collected(padded, need_more_capacity, more_cells, provider_cell_dep) ==
    IF NoMoreCells(more_cells)
    THEN IF IsLastProvider(lock_script_idx, Len(lock_scripts))
         THEN [pc |-> "done",
               result |-> Err("CapacityNotEnough", "need more capacity", need_more_capacity),
               lock_script_idx |-> lock_script_idx, cell_deps |-> cell_deps,
               witnesses |-> padded, inputs |-> inputs]
         ELSE [pc |-> "loop", result |-> result,
               lock_script_idx |-> NextProvider(lock_script_idx), cell_deps |-> cell_deps,
               witnesses |-> padded, inputs |-> inputs]
    ELSE IF ResolvesCellDep(cell_deps) /\ provider_cell_dep = None
         THEN [pc |-> "done",
               result |-> Err("ResolveCellDepFailed", lock_script.code_hash, 0),
               lock_script_idx |-> lock_script_idx, cell_deps |-> cell_deps,
               witnesses |-> padded, inputs |-> inputs]
         ELSE [pc |-> "loop", result |-> result,
               lock_script_idx |-> lock_script_idx,
               cell_deps |-> IF ResolvesCellDep(cell_deps)
                             THEN PushCellDep(cell_deps, tx.cell_deps, Unwrap(provider_cell_dep))
                             ELSE cell_deps,
               witnesses |-> PushPlaceholder(padded, has_provider, placeholder_witness),
               inputs |-> ExtendInputs(inputs, more_cells, Since(lock_script))]

\* lines 448-454, then the above
NeedMoreCapacity(p, need_more_capacity, change, branch, calls) ==
    \E query \in {[base_query EXCEPT !.min_total_capacity = need_more_capacity]} :
    \E collected \in {collect_live_cells(cell_collector, query, TRUE)} :
    \E after \in {Collected(p.witnesses, need_more_capacity, collected.cells,
                            resolve(cell_dep_resolver, ScriptId(lock_script)))} :
        /\ ~collected.error
        /\ cell_collector' = collected.collector
        /\ change_output' = change
        /\ pc' = after.pc
        /\ result' = after.result
        /\ lock_script_idx' = after.lock_script_idx
        /\ cell_deps' = after.cell_deps
        /\ witnesses' = after.witnesses
        /\ inputs' = after.inputs
        /\ last_pass' = PassOf(p, branch, Append(calls, Call(query, TRUE, collected.cells)))
        /\ UNCHANGED <<args, driver, lock_scripts>>

(***************************************************************************)
(* The passes of the loop, one action per arm of the match (lines 366-447) *)
(* and per way out of it.                                                  *)
(***************************************************************************)
\* line 339: an input whose previous cell does not resolve
GetCellFailed ==
    /\ InLoop
    /\ Unresolved # {}
    /\ pc' = "done"
    /\ result' = Err("TxDep", "", AllInputs[CHOOSE i \in Unresolved :
                                      \A j \in Unresolved : i <= j].previous_output)
    /\ last_pass' = [NoPass EXCEPT !.branch = "GetCellFailed",
                                   !.lock_script_idx = lock_script_idx]
    /\ UNCHANGED <<args, driver, cell_collector, locals>>

\* lines 367-369
ReturnBalanced ==
    /\ InLoop
    /\ \E p \in {Pass} :
        /\ FeeOk(p)
        /\ FeeBalanced(p.fee_result.value, p.min_fee)
        /\ Return(p, Ok(p.new_tx), "ReturnBalanced", <<>>)

\* lines 370-380: the change cell exists, the surplus goes into it
GrowChange ==
    /\ InLoop
    /\ \E p \in {Pass} :
        /\ FeeOk(p)
        /\ ~FeeBalanced(p.fee_result.value, p.min_fee)
        /\ FeeAbove(p.fee_result.value, p.min_fee)
        /\ IsSome(change_output)
        /\ change_output' =
             Some([Unwrap(change_output) EXCEPT
                     !.capacity = NewCapacity(Unwrap(change_output).capacity, Delta(p))])
        /\ witnesses' = p.witnesses
        /\ last_pass' = PassOf(p, "GrowChange", <<>>)
        /\ UNCHANGED <<args, driver, cell_collector, lock_scripts, lock_script_idx, cell_deps,
                       inputs, pc, result>>

\* lines 381-403: the surplus holds a change cell and the fee of its bytes
CreateChange ==
    /\ InLoop
    /\ \E p \in {Pass} :
        /\ FeeOk(p)
        /\ ~FeeBalanced(p.fee_result.value, p.min_fee)
        /\ FeeAbove(p.fee_result.value, p.min_fee)
        /\ change_output = None
        /\ EnoughForChange(Delta(p), base_change_occupied_capacity, extra_min_fee)
        /\ change_output' =
             Some([base_change_output EXCEPT !.capacity = Delta(p) - extra_min_fee])
        /\ witnesses' = p.witnesses
        /\ last_pass' = PassOf(p, "CreateChange", <<>>)
        /\ UNCHANGED <<args, driver, cell_collector, lock_scripts, lock_script_idx, cell_deps,
                       inputs, pc, result>>

\* mutant of ForceFails: the comparison is inverted
ForceFails_Inverted(fee, capacity) == fee < capacity
\* line 410
ForceFails(fee, capacity) == fee > capacity
\* lines 409-416
ForceSmallChangeResult(p, capacity) ==
    IF ForceFails(p.fee_result.value, capacity)
    THEN Err("ForceSmallChangeAsFeeFailed", "", p.fee_result.value)
    ELSE Ok(p.new_tx)

\* lines 409, 417: the policy is set
ForcePolicy(force) == IsSome(force)

\* lines 408-416: no more cells, the surplus is forced into the fee
ForceSmallChange ==
    /\ InLoop
    /\ \E p \in {Pass} :
        /\ SmallSurplus(p)
        /\ ~CollectorFails
        /\ more_cells_peek = <<>>
        /\ ForcePolicy(balancer.force_small_change_as_fee)
        /\ Return(p, ForceSmallChangeResult(p, Unwrap(balancer.force_small_change_as_fee)),
                  "ForceSmallChange", <<Call(base_query, FALSE, <<>>)>>)

\* lines 417-421
CanNotCreateChange ==
    /\ InLoop
    /\ \E p \in {Pass} :
        /\ SmallSurplus(p)
        /\ ~CollectorFails
        /\ more_cells_peek = <<>>
        /\ ~ForcePolicy(balancer.force_small_change_as_fee)
        /\ IsLastProvider(lock_script_idx, Len(lock_scripts))
        /\ Return(p, Err("CapacityNotEnough", "can not create change cell", Delta(p)),
                  "CanNotCreateChange", <<Call(base_query, FALSE, <<>>)>>)

\* lines 422-425
NextProviderForChange ==
    /\ InLoop
    /\ \E p \in {Pass} :
        /\ SmallSurplus(p)
        /\ ~CollectorFails
        /\ more_cells_peek = <<>>
        /\ ~ForcePolicy(balancer.force_small_change_as_fee)
        /\ ~IsLastProvider(lock_script_idx, Len(lock_scripts))
        /\ lock_script_idx' = NextProvider(lock_script_idx)
        /\ witnesses' = p.witnesses
        /\ last_pass' = PassOf(p, "NextProviderForChange", <<Call(base_query, FALSE, <<>>)>>)
        /\ UNCHANGED <<args, driver, cell_collector, lock_scripts, cell_deps, inputs, change_output,
                       pc, result>>

\* lines 426-435, then 448-497: a change cell of the least capacity, and more inputs
MinimalChange ==
    /\ InLoop
    /\ \E p \in {Pass} :
        /\ SmallSurplus(p)
        /\ ~CollectorFails
        /\ more_cells_peek # <<>>
        /\ NeedMoreCapacity(p, 1,
              Some([base_change_output EXCEPT !.capacity = base_change_occupied_capacity]),
              "MinimalChange", <<Call(base_query, FALSE, more_cells_peek)>>)

\* line 440, then 448-497
FeeBelow ==
    /\ InLoop
    /\ \E p \in {Pass} :
        /\ FeeOk(p)
        /\ ~FeeBalanced(p.fee_result.value, p.min_fee)
        /\ ~FeeAbove(p.fee_result.value, p.min_fee)
        /\ NeedMoreCapacity(p, 1, change_output, "FeeBelow", <<>>)

\* mutant of IsCapacityOverflow: the arm of line 441 takes no error
IsCapacityOverflow_Never(fee_result) == FALSE
\* line 441
IsCapacityOverflow(fee_result) == fee_result.tag = "CapacityOverflow"

\* lines 441-443, then 448-497; `delta + min_fee` of line 442 is a plain `+`
CapacityOverflow ==
    /\ InLoop
    /\ \E p \in {Pass} :
        /\ Unresolved = {}
        /\ IsCapacityOverflow(p.fee_result)
        /\ ~(overflow_checks /\ Overflows(p.fee_result.value, p.min_fee))
        /\ NeedMoreCapacity(p, wrapping_add(p.fee_result.value, p.min_fee), change_output,
                            "CapacityOverflow", <<>>)

\* line 442 in a build with overflow checks: the thread panics
AddOverflow ==
    /\ InLoop
    /\ \E p \in {Pass} :
        /\ Unresolved = {}
        /\ IsCapacityOverflow(p.fee_result)
        /\ overflow_checks
        /\ Overflows(p.fee_result.value, p.min_fee)
        /\ Return(p, Err("Panic", "attempt to add with overflow", 0), "AddOverflow", <<>>)

\* lines 444-446
FeeError ==
    /\ InLoop
    /\ \E p \in {Pass} :
        /\ Unresolved = {}
        /\ p.fee_result.tag # "Ok"
        /\ ~IsCapacityOverflow(p.fee_result)
        /\ Return(p, Err("TxFee", p.fee_result.tag, p.fee_result.value), "FeeError", <<>>)

\* the query of the collector call a pass makes first: the peek of line 407 after a
\* small surplus, the reserving call of line 454 after a fee below the minimum or a
\* CapacityOverflow; no call in the other passes
FirstCall(p) ==
    IF Unresolved # {} THEN <<>>
    ELSE IF SmallSurplus(p) THEN <<Call(base_query, FALSE, <<>>)>>
    ELSE IF FeeOk(p) /\ ~FeeBalanced(p.fee_result.value, p.min_fee)
            /\ ~FeeAbove(p.fee_result.value, p.min_fee)
    THEN <<Call([base_query EXCEPT !.min_total_capacity = 1], TRUE, <<>>)>>
    ELSE IF IsCapacityOverflow(p.fee_result)
            /\ ~(overflow_checks /\ Overflows(p.fee_result.value, p.min_fee))
    THEN <<Call([base_query EXCEPT
                   !.min_total_capacity = wrapping_add(p.fee_result.value, p.min_fee)],
                TRUE, <<>>)>>
    ELSE <<>>

\* lines 407, 454: the collector returns an error
CollectorError ==
    /\ InLoop
    /\ \E p \in {Pass} :
        /\ FirstCall(p) # <<>>
        /\ CollectorFails
        /\ Return(p, Err("CellCollector", "", 0), "CollectorError", FirstCall(p))

Next ==
    \/ Start
    \/ GetCellFailed
    \/ ReturnBalanced
    \/ GrowChange
    \/ CreateChange
    \/ ForceSmallChange
    \/ CanNotCreateChange
    \/ NextProviderForChange
    \/ MinimalChange
    \/ FeeBelow
    \/ CapacityOverflow
    \/ FeeError
    \/ CollectorError

Spec == Init /\ [][Next]_vars

\* The runs that termination is checked on: those of Init with the truncating fee
\* rate, the default change lock and the resolver that knows every lock.  The call
\* runs on the calling thread until it returns, so a pass that can run does run.
TerminationInit ==
    /\ Init
    /\ balancer.fee_rate = 1500
    /\ balancer.change_lock_script = None
    /\ cell_dep_resolver = FullResolver
FairSpec == TerminationInit /\ [][Next]_vars /\ WF_vars(Next)

(***************************************************************************)
(* The runs at the end of the capacity word, in both builds: a seed whose  *)
(* output has the largest capacity, a seed whose inputs together pass it,  *)
(* and a seed whose outputs together pass it; and the runs of              *)
(* TerminationInit.                                                        *)
(***************************************************************************)
WideSeedTxs ==
    { [cell_deps |-> <<>>, header_deps |-> <<>>, inputs |-> ins, outputs |-> outs,
       outputs_data |-> [i \in 1..Len(outs) |-> <<>>], witnesses |-> <<>>] :
        <<ins, outs>> \in
            { << <<>>, <<CellOutput(CapacityModulus - 1, LockR, None)>> >>,
              << <<CellInput(8, 0), CellInput(2, 0)>>, <<CellOutput(100000, LockR, None)>> >>,
              << <<CellInput(8, 0)>>, <<CellOutput(CapacityModulus - 1, LockR, None),
                                        CellOutput(100000, LockR, None)>> >> } }
WidthInit ==
    \/ TerminationInit
    \/ /\ tx \in WideSeedTxs
       /\ overflow_checks \in BOOLEAN
       /\ balancer \in {b \in Balancers : /\ b.fee_rate = 1000
                                         /\ Len(b.capacity_provider) = 2
                                         /\ b.change_lock_script = None
                                         /\ b.force_small_change_as_fee = None}
       /\ cell_collector \in Collectors(balancer.capacity_provider)
       /\ ~cell_collector.fails
       /\ cell_dep_resolver = FullResolver
       /\ header_dep_resolver = AllHeaders
       /\ lock_scripts = <<>>
       /\ lock_script_idx = 0
       /\ cell_deps = <<>>
       /\ inputs = <<>>
       /\ change_output = None
       /\ witnesses = <<>>
       /\ pc = "start"
       /\ result = Pending
       /\ last_pass = NoPass
       /\ DirectCall
WidthNext == Next \/ AddOverflow
WidthSpec == WidthInit /\ [][WidthNext]_vars

(***************************************************************************)
(* gen_script_groups (lines 506-539).  A HashMap is a function from its    *)
(* keys; a script hash is the script under a tag, so that two hashes are   *)
(* equal exactly when the scripts are.  Indices count from 0.              *)
(***************************************************************************)
calc_script_hash(script) == <<"hash", script>>
\* ScriptGroup::from_lock_script / from_type_script (lines 518, 523, 531)
ScriptGroup(script, group_type) ==
    [script |-> script, group_type |-> group_type,
     input_indices |-> <<>>, output_indices |-> <<>>]
from_lock_script(script) == ScriptGroup(script, "Lock")
from_type_script(script) == ScriptGroup(script, "Type")
\* HashMap::entry(key).or_insert_with(..)
or_insert_with(groups, key, fresh) ==
    IF key \in DOMAIN groups THEN groups ELSE groups @@ (key :> fresh)
\* mutant of LockGroupKey: the args of the lock are left out of the key
LockGroupKey_CodeHash(output) == calc_script_hash(Script(output.lock.code_hash, <<>>))
\* line 517: output.calc_lock_hash()
LockGroupKey(output) == calc_script_hash(output.lock)
\* lines 519, 524
PushInput(groups, key, fresh, i) ==
    [or_insert_with(groups, key, fresh) EXCEPT ![key].input_indices = Append(@, i)]
\* line 532
PushOutput(groups, key, fresh, i) ==
    [or_insert_with(groups, key, fresh) EXCEPT ![key].output_indices = Append(@, i)]

\* lines 514-526, from the input at position i (counted from 1) on
RECURSIVE GroupInputs(_, _, _)
GroupInputs(t, i, groups) ==
    IF i > Len(t.inputs) THEN groups
    ELSE IF get_cell(t.inputs[i].previous_output) = None
    THEN [NoGroups EXCEPT !.tag = "Err", !.value = t.inputs[i].previous_output]
    ELSE LET output == Unwrap(get_cell(t.inputs[i].previous_output))
         IN  GroupInputs(t, i + 1,
                [groups EXCEPT
                   !.lock_groups = PushInput(@, LockGroupKey(output),
                                             from_lock_script(output.lock), i - 1),
                   !.type_groups =
                       IF IsSome(output.type_)
                       THEN PushInput(@, calc_script_hash(Unwrap(output.type_)),
                                      from_type_script(Unwrap(output.type_)), i - 1)
                       ELSE @])
\* lines 527-534
RECURSIVE GroupOutputs(_, _, _)
GroupOutputs(t, i, groups) ==
    IF i > Len(t.outputs) THEN groups
    ELSE GroupOutputs(t, i + 1,
            [groups EXCEPT
               !.type_groups =
                   IF IsSome(t.outputs[i].type_)
                   THEN PushOutput(@, calc_script_hash(Unwrap(t.outputs[i].type_)),
                                   from_type_script(Unwrap(t.outputs[i].type_)), i - 1)
                   ELSE @])
gen_script_groups(t) ==
    LET of_inputs == GroupInputs(t, 1, [NoGroups EXCEPT !.tag = "Ok"])
    IN  IF of_inputs.tag = "Err" THEN of_inputs ELSE GroupOutputs(t, 1, of_inputs)

(***************************************************************************)
(* ScriptUnlocker (crate::unlock).  An unlocker answers is_unlocked with   *)
(* one value, matches a set of args, and fails in at most one of its       *)
(* calls.  Its three writes put a value at the group's lowest input index. *)
(***************************************************************************)
Unlocker(unlocked, matched, error) ==
    [unlocked |-> unlocked, matched |-> matched, error |-> error]
SignaturePlaceholder == <<0, 0, 0, 0, 0>>
Signature == <<83, 83, 83, 83, 83>>
SetWitness(t, index, witness) ==
    LET padded == t.witnesses \o Rep(<<>>, index + 1 - Len(t.witnesses))
    IN  [t EXCEPT !.witnesses = [padded EXCEPT ![index + 1] = witness]]
UnlockerWrite(unlocker, call, t, group, witness) ==
    IF unlocker.error = call THEN Err("Unlock", call, 0)
    ELSE Ok(SetWitness(t, group.input_indices[1], witness))
is_unlocked(unlocker, t, group) ==
    IF unlocker.error = "is_unlocked" THEN [tag |-> "Err", value |-> FALSE]
    ELSE [tag |-> "Ok", value |-> unlocker.unlocked]
match_args(unlocker, script_args) == script_args \in unlocker.matched
fill_placeholder_witness(unlocker, t, group) ==
    UnlockerWrite(unlocker, "fill_placeholder_witness", t, group, SignaturePlaceholder)
unlock(unlocker, t, group) == UnlockerWrite(unlocker, "unlock", t, group, Signature)
clear_placeholder_witness(unlocker, t, group) ==
    UnlockerWrite(unlocker, "clear_placeholder_witness", t, group, <<>>)

(***************************************************************************)
(* fill_placeholder_witnesses (lines 546-570) and unlock_tx (lines         *)
(* 577-601).  The loop over lock_groups.values() visits the groups in an   *)
(* order the HashMap chooses: one action per visit, of any group not       *)
(* visited yet.                                                            *)
(***************************************************************************)
Step(name, r) == [step |-> name, result |-> r]
UnlockerCall(call, key) == [call |-> call, group |-> key]
\* what one visit leaves: the transaction, whether the group is pushed to the list,
\* the unlocker calls made, and the error of the call that failed
Visit(t, push, calls, error) == [tx |-> t, push |-> push, calls |-> calls, error |-> error]
NoError == Ok(EmptyTx)

\* mutant of SkipsUnlocked: an unlocked group goes on to match_args
SkipsUnlocked_Never(asked) == FALSE
\* line 558: if !unlocker.is_unlocked(..)?
SkipsUnlocked(asked) == asked.value

\* lines 555-567
FillVisit(t, group) ==
    IF ScriptId(group.script) \in DOMAIN unlockers
    THEN LET unlocker == unlockers[ScriptId(group.script)]
             asked == is_unlocked(unlocker, t, group)
             filled == fill_placeholder_witness(unlocker, t, group)
         IN  IF asked.tag = "Err"
             THEN Visit(t, FALSE, <<"is_unlocked">>, Err("Unlock", "is_unlocked", 0))
             ELSE IF SkipsUnlocked(asked)
             THEN Visit(t, FALSE, <<"is_unlocked">>, NoError)
             ELSE IF match_args(unlocker, group.script.args)
             THEN Visit(IF filled.tag = "Ok" THEN filled.tx ELSE t, FALSE,
                        <<"is_unlocked", "match_args", "fill_placeholder_witness">>,
                        IF filled.tag = "Ok" THEN NoError ELSE filled)
             ELSE Visit(t, TRUE, <<"is_unlocked", "match_args">>, NoError)
    ELSE Visit(t, TRUE, <<>>, NoError)

\* mutant of ClearsFirst: match_args is asked before is_unlocked is acted on
ClearsFirst_MatchFirst(asked, matches) == asked.value /\ matches
\* line 589: if unlocker.is_unlocked(..)?
ClearsFirst(asked, matches) == asked.value

\* lines 586-598
UnlockVisit(t, group) ==
    IF ScriptId(group.script) \in DOMAIN unlockers
    THEN LET unlocker == unlockers[ScriptId(group.script)]
             asked == is_unlocked(unlocker, t, group)
             cleared == clear_placeholder_witness(unlocker, t, group)
             unlocked == unlock(unlocker, t, group)
         IN  IF asked.tag = "Err"
             THEN Visit(t, FALSE, <<"is_unlocked">>, Err("Unlock", "is_unlocked", 0))
             ELSE IF ClearsFirst(asked, match_args(unlocker, group.script.args))
             THEN Visit(IF cleared.tag = "Ok" THEN cleared.tx ELSE t, FALSE,
                        <<"is_unlocked", "clear_placeholder_witness">>,
                        IF cleared.tag = "Ok" THEN NoError ELSE cleared)
             ELSE IF match_args(unlocker, group.script.args)
             THEN Visit(IF unlocked.tag = "Ok" THEN unlocked.tx ELSE t, FALSE,
                        <<"is_unlocked", "match_args", "unlock">>,
                        IF unlocked.tag = "Ok" THEN NoError ELSE unlocked)
             ELSE Visit(t, TRUE, <<"is_unlocked", "match_args">>, NoError)
    ELSE Visit(t, TRUE, <<>>, NoError)

Idle == UNCHANGED <<args, cell_collector, locals, pc, result, last_pass>>
Returns(name, r) ==
    /\ stage' = "returned"
    /\ outcome' = r
    /\ steps' = Append(steps, Step(name, r))

\* lines 551-553 and 582-584: the groups of the transaction, or the error of get_cell
GenScriptGroups(name) ==
    /\ stage = name
    /\ script_groups.tag = ""
    /\ \E groups \in {gen_script_groups(driver_tx)} :
         IF groups.tag = "Err"
         THEN /\ Returns(name, Err("TxDep", "", groups.value))
              /\ UNCHANGED script_groups
         ELSE /\ script_groups' = groups
              /\ UNCHANGED <<stage, outcome, steps>>
    /\ UNCHANGED <<entry, unlockers, build_base, driver_tx, visited, not_matched,
                   unlocker_calls>>
    /\ Idle

\* one turn of the loop of lines 554-568 or 585-599
VisitGroup(name, key, visit) ==
    /\ visited' = visited \cup {key}
    /\ unlocker_calls' =
         unlocker_calls \o [i \in 1..Len(visit.calls) |-> UnlockerCall(visit.calls[i], key)]
    /\ driver_tx' = visit.tx
    /\ not_matched' =
         IF visit.push THEN Append(not_matched, script_groups.lock_groups[key])
         ELSE not_matched
    /\ IF visit.error.tag = "Err"
       THEN Returns(name, visit.error)
       ELSE UNCHANGED <<stage, outcome, steps>>
    /\ UNCHANGED <<entry, unlockers, build_base, script_groups>>
    /\ Idle

LeftToVisit == DOMAIN script_groups.lock_groups \ visited

FillGenScriptGroups == GenScriptGroups("fill_placeholder_witnesses")
FillPlaceholderWitness ==
    /\ stage = "fill_placeholder_witnesses"
    /\ script_groups.tag = "Ok"
    /\ \E key \in LeftToVisit :
         VisitGroup("fill_placeholder_witnesses", key,
                    FillVisit(driver_tx, script_groups.lock_groups[key]))

UnlockGenScriptGroups == GenScriptGroups("unlock_tx")
UnlockGroup ==
    /\ stage = "unlock_tx"
    /\ script_groups.tag = "Ok"
    /\ \E key \in LeftToVisit :
         VisitGroup("unlock_tx", key, UnlockVisit(driver_tx, script_groups.lock_groups[key]))

\* line 569; in build_balanced the transaction goes on to balance_tx_capacity
\* (lines 90-99) and the list of groups is dropped
FillReturn ==
    /\ stage = "fill_placeholder_witnesses"
    /\ script_groups.tag = "Ok"
    /\ LeftToVisit = {}
    /\ steps' = Append(steps, Step("fill_placeholder_witnesses", Ok(driver_tx)))
    /\ IF entry = "fill_placeholder_witnesses"
       THEN /\ stage' = "returned"
            /\ outcome' = Ok(driver_tx)
            /\ UNCHANGED <<tx, pc, script_groups, visited, not_matched>>
       ELSE /\ stage' = "balance_tx_capacity"
            /\ tx' = driver_tx
            /\ pc' = "start"
            /\ script_groups' = NoGroups
            /\ visited' = {}
            /\ not_matched' = <<>>
            /\ UNCHANGED outcome
    /\ UNCHANGED <<entry, unlockers, build_base, driver_tx, unlocker_calls>>
    /\ UNCHANGED <<balancer, cell_dep_resolver, header_dep_resolver, overflow_checks,
                   cell_collector, locals, result, last_pass>>

\* line 600
UnlockReturn ==
    /\ stage = "unlock_tx"
    /\ script_groups.tag = "Ok"
    /\ LeftToVisit = {}
    /\ Returns("unlock_tx", Ok(driver_tx))
    /\ UNCHANGED <<entry, unlockers, build_base, driver_tx, script_groups, visited,
                   not_matched, unlocker_calls>>
    /\ Idle

(***************************************************************************)
(* TxBuilder::build_balanced (lines 75-100) and build_unlocked (lines      *)
(* 110-128): one action per step, each `?` a return of the error.          *)
(***************************************************************************)
\* mutant of IsOk: `?` lets an error through
IsOk_Always(r) == TRUE
\* the `?` of lines 89, 91, 99 and 126
IsOk(r) == r.tag = "Ok"

\* lines 84-89: the recipe's build_base
BuildBase ==
    /\ stage = "build_base"
    /\ IF IsOk(build_base)
       THEN /\ stage' = "fill_placeholder_witnesses"
            /\ driver_tx' = build_base.tx
            /\ steps' = Append(steps, Step("build_base", build_base))
            /\ UNCHANGED outcome
       ELSE /\ Returns("build_base", build_base)
            /\ UNCHANGED driver_tx
    /\ UNCHANGED <<entry, unlockers, build_base, script_groups, visited, not_matched,
                   unlocker_calls>>
    /\ Idle

\* lines 92-99 and 119-127: balance_tx_capacity has returned
BalanceReturn ==
    /\ stage = "balance_tx_capacity"
    /\ entry \in {"build_balanced", "build_unlocked"}
    /\ pc = "done"
    /\ steps' = Append(steps, Step("balance_tx_capacity", result))
    /\ IF ~IsOk(result)
       THEN /\ stage' = "returned"
            /\ outcome' = Err("BalanceCapacity", result.err, result.value)
            /\ UNCHANGED driver_tx
       ELSE IF entry = "build_balanced"
       THEN /\ stage' = "returned"
            /\ outcome' = result
            /\ UNCHANGED driver_tx
       ELSE /\ stage' = "unlock_tx"
            /\ driver_tx' = result.tx
            /\ UNCHANGED outcome
    /\ UNCHANGED <<entry, unlockers, build_base, script_groups, visited, not_matched,
                   unlocker_calls>>
    /\ Idle

(***************************************************************************)
(* The calls of the public functions: the drivers with their arguments,    *)
(* and balance_tx_capacity by itself as in TerminationInit.                *)
(***************************************************************************)
SighashUnlockers ==
    { Unlocker(u, m, e) :
        u \in BOOLEAN,
        m \in {{LockA.args}, {LockA.args, LockC.args, LockR.args}},
        e \in {"", "is_unlocked", "fill_placeholder_witness", "unlock",
               "clear_placeholder_witness"} }
MultisigUnlockers == { Unlocker(u, {LockB.args}, "") : u \in BOOLEAN }
UnlockerMaps ==
    {<<>>}
    \cup { (ScriptId(LockA) :> a) : a \in SighashUnlockers }
    \cup { (ScriptId(LockB) :> b) : b \in MultisigUnlockers }
    \cup { (ScriptId(LockA) :> a) @@ (ScriptId(LockB) :> b) :
             a \in SighashUnlockers, b \in MultisigUnlockers }
DriverTx(ins, outs, ws) ==
    [cell_deps |-> <<>>, header_deps |-> <<>>, inputs |-> ins, outputs |-> outs,
     outputs_data |-> [i \in 1..Len(outs) |-> <<>>], witnesses |-> ws]
DriverTxs ==
    { DriverTx(<<>>, <<CellOutput(100000, LockR, None)>>, <<>>),
      DriverTx(<<CellInput(1, 0), CellInput(4, 5), CellInput(3, 0), CellInput(6, 0)>>,
               <<CellOutput(100000, LockR, None)>>, <<>>),
      DriverTx(<<CellInput(7, 5), CellInput(1, 0), CellInput(6, 0), CellInput(2, 0)>>,
               <<CellOutput(100000, LockR, None), CellOutput(150000, LockA, Some(DaoType)),
                 CellOutput(100000, LockA, Some(DaoType))>>,
               <<SignaturePlaceholder>>),
      DriverTx(<<CellInput(2, 0), CellInput(UnknownOutPoint, 0)>>,
               <<CellOutput(40000, LockR, None)>>, <<>>) }
BuildBaseResults ==
    { Err("InvalidParameter", "", 0),
      Ok(DriverTx(<<>>, <<CellOutput(100000, LockR, None)>>, <<>>)),
      Ok(DriverTx(<<CellInput(2, 0)>>, <<CellOutput(100000, LockR, None)>>, <<>>)),
      Ok(DriverTx(<<CellInput(UnknownOutPoint, 0)>>, <<CellOutput(100000, LockR, None)>>,
                  <<>>)) }
BuildCollectors ==
    { [live |-> l, reserved |-> {}, fails |-> FALSE] : l \in {<<>>, <<3>>, <<1, 4>>} }
BuildBalancer ==
    [fee_rate |-> 1000,
     capacity_provider |-> << <<LockA, PlaceholderA>>, <<LockB, PlaceholderB>> >>,
     change_lock_script |-> None, force_small_change_as_fee |-> None]

NotCalled ==
    /\ tx = EmptyTx
    /\ overflow_checks = FALSE
    /\ balancer = BuildBalancer
    /\ cell_dep_resolver = FullResolver
    /\ header_dep_resolver = AllHeaders
    /\ lock_scripts = <<>>
    /\ lock_script_idx = 0
    /\ cell_deps = <<>>
    /\ inputs = <<>>
    /\ change_output = None
    /\ witnesses = <<>>
    /\ pc = "idle"
    /\ result = Pending
    /\ last_pass = NoPass
DriverFresh ==
    /\ steps = <<>>
    /\ script_groups = NoGroups
    /\ visited = {}
    /\ not_matched = <<>>
    /\ unlocker_calls = <<>>
    /\ outcome = Pending

BuildInit ==
    \/ TerminationInit
    \/ /\ entry \in {"fill_placeholder_witnesses", "unlock_tx"}
       /\ stage = entry
       /\ unlockers \in UnlockerMaps
       /\ build_base = Pending
       /\ driver_tx \in DriverTxs
       /\ cell_collector \in {[live |-> <<>>, reserved |-> {}, fails |-> FALSE]}
       /\ DriverFresh
       /\ NotCalled
    \/ /\ entry \in {"build_balanced", "build_unlocked"}
       /\ stage = "build_base"
       /\ unlockers \in UnlockerMaps
       /\ build_base \in BuildBaseResults
       /\ driver_tx = EmptyTx
       /\ cell_collector \in BuildCollectors
       /\ DriverFresh
       /\ NotCalled

BuildNext ==
    \/ BuildBase
    \/ FillGenScriptGroups
    \/ FillPlaceholderWitness
    \/ FillReturn
    \/ Next
    \/ BalanceReturn
    \/ UnlockGenScriptGroups
    \/ UnlockGroup
    \/ UnlockReturn

BuildSpec == BuildInit /\ [][BuildNext]_vars

(***************************************************************************)
(* Properties.                                                             *)
(***************************************************************************)
Returned == pc = "done" /\ result.tag = "Ok"
ActualFee(t) == tx_fee(t, header_dep_resolver)
MinFeeOf(t) == FeeRate_fee(balancer.fee_rate, serialized_size_in_block(t))
\* the out points of the inputs the balancer added, and the locks they came from
AddedLocks == {ChainCells[inputs[i].previous_output].output.lock : i \in 1..Len(inputs)}

\* C1 as stated: whenever balance_tx_capacity returns Ok(result), the fee of the result
\* equals the minimum fee of its serialized size.
C1_FixedPointAlways ==
    Returned => ActualFee(result.tx) = FeeResult("Ok", MinFeeOf(result.tx))

\* C1 as amended: whenever balance_tx_capacity returns Ok(result), the fee of the result
\* equals the minimum fee of its serialized size, unless force_small_change_as_fee is
\* Some(cap) and the result carries no change output of the balancer: then the fee is
\* above the minimum fee and at most cap.
C1_FixedPointUnlessForced ==
    Returned =>
        /\ ActualFee(result.tx).tag = "Ok"
        /\ \/ ActualFee(result.tx).value = MinFeeOf(result.tx)
           \/ /\ IsSome(balancer.force_small_change_as_fee)
              /\ Len(result.tx.outputs) = Len(tx.outputs)
              /\ ActualFee(result.tx).value > MinFeeOf(result.tx)
              /\ ActualFee(result.tx).value <= Unwrap(balancer.force_small_change_as_fee)

\* C1 witness: a transaction returned with inputs and a change output of the balancer,
\* under a fee rate whose fee truncates
C1_Witness ==
    /\ Returned
    /\ inputs # <<>>
    /\ IsSome(change_output)
    /\ balancer.fee_rate = 1500
    /\ balancer.force_small_change_as_fee = None

\* what a pass that does not return changes: the provider index goes up, an input is
\* added, or the change cell is created or grows
PassProgress ==
    pc = "loop" =>
        \/ pc' = "done"
        \/ lock_script_idx' > lock_script_idx
        \/ Len(inputs') > Len(inputs)
        \/ change_output = None /\ IsSome(change_output')
        \/ /\ IsSome(change_output)
           /\ IsSome(change_output')
           /\ Unwrap(change_output').capacity > Unwrap(change_output).capacity

\* C2: every run of balance_tx_capacity returns (a transaction or an error), and every
\* pass that does not return advances lock_script_idx, adds an input, or creates or
\* grows the change cell.
C2_Termination == <>(pc = "done") /\ [][PassProgress]_vars

\* C2 witness: a run that advanced to a later provider, added inputs, made a change
\* cell and then returned
C2_Witness ==
    /\ pc = "done"
    /\ lock_script_idx > 0
    /\ Len(inputs) >= 2
    /\ IsSome(change_output)

\* the capacity of the change output is at least the occupied capacity of that cell
\* with empty data
ChangeFloor(change) == change.capacity >= occupied_capacity(change, 0)

\* C3: if the change output is present, in a pass or in the returned transaction, its
\* capacity is at least the occupied capacity of a cell with the change lock and empty
\* data, and the capacity of the change cell never decreases.
C3_ChangeFloor ==
    /\ [](/\ IsSome(change_output) => ChangeFloor(Unwrap(change_output))
          /\ (Returned /\ Len(result.tx.outputs) > Len(tx.outputs)) =>
                ChangeFloor(result.tx.outputs[Len(result.tx.outputs)]))
    /\ [][IsSome(change_output) =>
            /\ IsSome(change_output')
            /\ Unwrap(change_output').capacity >= Unwrap(change_output).capacity]_vars

\* C3 witness: a returned transaction whose change output was created at its floor
\* and then grew
C3_Witness ==
    /\ Returned
    /\ Len(result.tx.outputs) > Len(tx.outputs)
    /\ result.tx.outputs[Len(result.tx.outputs)].capacity > base_change_occupied_capacity
    /\ last_pass.branch = "ReturnBalanced"
    /\ Len(inputs) >= 2

\* C4: every candidate transaction of a pass, and every returned transaction, has at
\* least as many witnesses as inputs.
C4_WitnessAlignment ==
    /\ pc = "loop" => Len(Pass.new_tx.witnesses) >= Len(Pass.new_tx.inputs)
    /\ Returned => Len(result.tx.witnesses) >= Len(result.tx.inputs)

\* C4 witness: a returned transaction with a seed input, inputs from two providers and
\* an empty witness that the padding put in
C4_Witness ==
    /\ Returned
    /\ tx.inputs # <<>>
    /\ tx.witnesses = <<>>
    /\ Cardinality(AddedLocks) = 2
    /\ \E i \in 1..Len(witnesses) : witnesses[i] = <<>>

NoDuplicates(seq) == \A i, j \in 1..Len(seq) : seq[i] = seq[j] => i = j
OutPointsOf(ins) == [i \in 1..Len(ins) |-> ins[i].previous_output]

\* C5: in the returned transaction no two inputs, the seed's and the balancer's
\* together, have the same out point, given a seed with distinct inputs (the collector
\* never returns from a reserving call a cell that an earlier reserving call returned).
C5_NoDoubleSpend ==
    (Returned /\ NoDuplicates(OutPointsOf(tx.inputs))) =>
        NoDuplicates(OutPointsOf(result.tx.inputs))

\* C6: for a seed whose cell-dep list has no duplicates, the cell-dep list of every
\* candidate and of every returned transaction has no duplicates.
C6_CellDepUniqueness ==
    NoDuplicates(tx.cell_deps) =>
        /\ NoDuplicates(tx.cell_deps \o cell_deps)
        /\ Returned => NoDuplicates(result.tx.cell_deps)

\* C6 witness: a returned transaction with inputs of two providers that resolve to the
\* cell-dep the seed already holds
C6_Witness ==
    /\ Returned
    /\ tx.cell_deps = <<DepSighash>>
    /\ AddedLocks = {LockA, LockC}
    /\ resolve(cell_dep_resolver, ScriptId(LockA)) = Some(DepSighash)
    /\ resolve(cell_dep_resolver, ScriptId(LockC)) = Some(DepSighash)

\* C7: in a returned transaction, for every provider lock from which the balancer added
\* an input, the cell-dep the resolver returns for that lock's ScriptId is among the
\* cell-deps of the result.
C7_CellDepsOfActivatedProviders ==
    Returned =>
        \A lock \in AddedLocks :
            IsSome(resolve(cell_dep_resolver, ScriptId(lock))) =>
                \E i \in 1..Len(result.tx.cell_deps) :
                    result.tx.cell_deps[i] = Unwrap(resolve(cell_dep_resolver, ScriptId(lock)))

\* the number of providers after the duplicates are removed
DistinctProviders ==
    Cardinality({balancer.capacity_provider[i][1] : i \in 1..Len(balancer.capacity_provider)})
\* the last collector call of the pass that just ran was for the provider the pass
\* started with and returned no cells
LastCallEmptyFor(pass, idx) ==
    /\ pass.calls # <<>>
    /\ pass.calls[Len(pass.calls)].query.lock = lock_scripts[idx + 1][1]
    /\ pass.calls[Len(pass.calls)].cells = <<>>

\* C8: lock_script_idx starts at 0, never decreases, increases by exactly 1 per advance,
\* advances only when a collector call for the current provider returned no cells, and
\* stays below the number of de-duplicated providers.
C8_ProviderMonotonicity ==
    /\ [](/\ pc = "start" => lock_script_idx = 0
          /\ lock_script_idx >= 0
          /\ pc = "loop" => lock_script_idx < DistinctProviders
          /\ (pc = "done" /\ balancer.capacity_provider # <<>>) =>
                lock_script_idx < DistinctProviders)
    /\ [][/\ lock_script_idx' >= lock_script_idx
          /\ lock_script_idx' # lock_script_idx =>
                /\ lock_script_idx' = lock_script_idx + 1
                /\ LastCallEmptyFor(last_pass', lock_script_idx)]_vars

\* C8 witness: a run over a provider list with a duplicate that advanced once, to the
\* last of its two distinct providers
C8_Witness ==
    /\ pc = "done"
    /\ Len(balancer.capacity_provider) = 3
    /\ DistinctProviders = 2
    /\ lock_script_idx = 1

\* every lookup that tx_fee makes for the transaction resolves
AllResolve(t) ==
    \A i \in 1..Len(t.inputs) :
        /\ IsSome(get_cell(t.inputs[i].previous_output))
        /\ (/\ t.inputs[i].since # 0
            /\ IsSome(ChainCells[t.inputs[i].previous_output].output.type_)
            /\ Unwrap(ChainCells[t.inputs[i].previous_output].output.type_).code_hash
                 = DAO_TYPE_HASH) =>
              /\ IsSome(resolve_by_tx(header_dep_resolver, t.inputs[i].previous_output))
              /\ Len(ChainCells[t.inputs[i].previous_output].data) = 8
              /\ IsSome(resolve_by_number(header_dep_resolver,
                            from_le_bytes(ChainCells[t.inputs[i].previous_output].data)))
\* what an input contributes: the maximum withdraw of a DAO cell spent with a non-zero
\* since, the plain capacity of any other cell
InputValue(input) ==
    LET cell == ChainCells[input.previous_output]
    IN  IF input.since # 0 /\ cell.output.type_ = Some(DaoType)
        THEN calculate_dao_maximum_withdraw4(
                 header_dep_resolver.by_number[from_le_bytes(cell.data)],
                 header_dep_resolver.by_tx[input.previous_output],
                 cell.output, occupied_capacity(cell.output, 8))
        ELSE cell.output.capacity
RECURSIVE Sum(_, _)
Sum(f, n) == IF n = 0 THEN 0 ELSE f[n] + Sum(f, n - 1)
InputTotalOf(t) == Sum([i \in 1..Len(t.inputs) |-> InputValue(t.inputs[i])], Len(t.inputs))
OutputTotalOf(t) == Sum([i \in 1..Len(t.outputs) |-> t.outputs[i].capacity], Len(t.outputs))

ForceCase ==
    /\ pc = "loop"
    /\ ~cell_collector.fails
    /\ Unresolved = {}
    /\ Pass.fee_result.tag = "Ok"
    /\ Pass.fee_result.value > Pass.min_fee
    /\ change_output = None
    /\ Pass.fee_result.value - Pass.min_fee < base_change_occupied_capacity + extra_min_fee
    /\ \A i \in 1..Len(cell_collector.live) :
          \/ cell_collector.live[i] \in cell_collector.reserved
          \/ ChainCells[cell_collector.live[i]].output.lock # lock_script
    /\ IsSome(balancer.force_small_change_as_fee)

\* C10: in that case the pass returns the candidate, which has no change output of
\* the balancer, if fee <= cap, and fails with ForceSmallChangeAsFeeFailed(fee) if
\* fee > cap, and in both cases lock_script_idx stays.
C10_ForceSmallChange ==
    [][ForceCase =>
        /\ pc' = "done"
        /\ lock_script_idx' = lock_script_idx
        /\ IF Pass.fee_result.value <= Unwrap(balancer.force_small_change_as_fee)
           THEN /\ result' = Ok(Pass.new_tx)
                /\ Len(result'.tx.outputs) = Len(tx.outputs)
           ELSE result' = Err("ForceSmallChangeAsFeeFailed", "", Pass.fee_result.value)]_vars

\* C10 witness: the candidate returned with its surplus as fee while a later provider
\* was left untouched
C10_Witness ==
    /\ Returned
    /\ last_pass.branch = "ForceSmallChange"
    /\ lock_script_idx + 1 < Len(lock_scripts)
    /\ inputs # <<>>
    /\ ActualFee(result.tx).value > MinFeeOf(result.tx)

IndicesOf(seq) == {seq[i] : i \in 1..Len(seq)}
StrictlyAscending(seq) == \A i, j \in 1..Len(seq) : i < j => seq[i] < seq[j]
\* the lock groups that hold the input index
LockGroupsOf(groups, index) ==
    {key \in DOMAIN groups.lock_groups :
        index \in IndicesOf(groups.lock_groups[key].input_indices)}
LockOfInput(t, index) == ChainCells[t.inputs[index + 1].previous_output].output.lock

\* C11: the lock groups that gen_script_groups returns for a transaction whose inputs
\* all resolve partition the input indices 0..len(inputs)-1: each index is in exactly
\* one group, the one keyed by the hash of its previous cell's lock; the groups hold no
\* other index; input_indices are ascending; output_indices of a lock group is empty.
C11_ScriptGroupPartition ==
    script_groups.tag = "Ok" =>
        /\ \A index \in 0..(Len(driver_tx.inputs) - 1) :
              /\ LockGroupsOf(script_groups, index)
                   = {calc_script_hash(LockOfInput(driver_tx, index))}
              /\ script_groups.lock_groups[calc_script_hash(LockOfInput(driver_tx, index))].script
                   = LockOfInput(driver_tx, index)
        /\ \A key \in DOMAIN script_groups.lock_groups :
              /\ IndicesOf(script_groups.lock_groups[key].input_indices)
                   \subseteq 0..(Len(driver_tx.inputs) - 1)
              /\ script_groups.lock_groups[key].input_indices # <<>>
              /\ StrictlyAscending(script_groups.lock_groups[key].input_indices)
              /\ script_groups.lock_groups[key].output_indices = <<>>

\* C11 witness: the groups of a transaction with four inputs under three locks, two of
\* them with the same code hash, and with outputs that carry a type script
C11_Witness ==
    /\ script_groups.tag = "Ok"
    /\ Len(driver_tx.inputs) = 4
    /\ Cardinality(DOMAIN script_groups.lock_groups) = 3
    /\ script_groups.lock_groups[calc_script_hash(LockA)].input_indices = <<1, 3>>
    /\ \E key \in DOMAIN script_groups.type_groups :
          script_groups.type_groups[key].output_indices = <<1, 2>>

\* the error a pass ends with before any collector call: the get_cell of line 339, or
\* an error of tx_fee other than CapacityOverflow
EarlyError(p) ==
    IF Unresolved # {}
    THEN Some(Err("TxDep", "",
                  AllInputs[CHOOSE i \in Unresolved : \A j \in Unresolved : i <= j].previous_output))
    ELSE IF p.fee_result.tag \notin {"Ok", "CapacityOverflow"}
    THEN Some(Err("TxFee", p.fee_result.tag, p.fee_result.value))
    ELSE None

StepOrder == <<"build_base", "fill_placeholder_witnesses", "balance_tx_capacity", "unlock_tx">>
Pipeline == entry \in {"build_balanced", "build_unlocked"}

\* C13: in build_balanced and build_unlocked the steps run in the order build_base,
\* fill_placeholder_witnesses, balance_tx_capacity, unlock_tx (the last in
\* build_unlocked only); a step runs only after every earlier step returned Ok, and a
\* step that fails is the last and its error is what the call returns; the seed that
\* balance_tx_capacity sees is the transaction the placeholder pass returned, and
\* unlock_tx gets the transaction balance_tx_capacity returned.
C13_PipelineOrdering ==
    Pipeline =>
        /\ Len(steps) <= (IF entry = "build_balanced" THEN 3 ELSE 4)
        /\ \A i \in 1..Len(steps) : steps[i].step = StepOrder[i]
        /\ \A i \in 1..(Len(steps) - 1) : steps[i].result.tag = "Ok"
        /\ (steps # <<>> /\ steps[Len(steps)].result.tag = "Err") =>
              /\ stage = "returned"
              /\ outcome.tag = "Err"
        /\ stage = "build_base" => steps = <<>>
        /\ stage = "fill_placeholder_witnesses" =>
              /\ Len(steps) = 1
              /\ driver_tx.inputs = steps[1].result.tx.inputs
        /\ pc = "idle" =>
              /\ Len(steps) <= 2
              /\ cell_collector.reserved = {}
              /\ stage # "unlock_tx"
        /\ pc # "idle" =>
              /\ Len(steps) >= 2
              /\ tx = steps[2].result.tx
        /\ stage = "unlock_tx" =>
              /\ Len(steps) = 3
              /\ driver_tx.inputs = steps[3].result.tx.inputs
              /\ driver_tx.outputs = steps[3].result.tx.outputs
        /\ \A i \in 1..Len(unlocker_calls) :
              unlocker_calls[i].call \in {"unlock", "clear_placeholder_witness"} =>
                  Len(steps) >= 3

\* C13 witness: build_unlocked ran all four steps; the placeholder pass wrote a
\* witness for the input of build_base, the balancer added inputs, and unlock_tx signed
C13_Witness ==
    /\ entry = "build_unlocked"
    /\ stage = "returned"
    /\ outcome.tag = "Ok"
    /\ Len(steps) = 4
    /\ tx.witnesses = <<SignaturePlaceholder>>
    /\ inputs # <<>>
    /\ \E i \in 1..Len(unlocker_calls) : unlocker_calls[i].call = "unlock"

IsPrefix(a, b) == Len(a) <= Len(b) /\ SubSeq(b, 1, Len(a)) = a

\* C14: a returned transaction has the seed's inputs followed by the balancer's, which
\* grow only at their end and by the cells of the pass's reserving collector call in
\* the order the collector returned them; it has the seed's outputs and outputs-data
\* followed by at most one output, the change output with empty data; the seed's
\* cell-deps and witnesses are prefixes of the result's; the seed does not change.
C14_SeedPreservation ==
    /\ [](Returned =>
            /\ result.tx.inputs = tx.inputs \o inputs
            /\ IsPrefix(tx.outputs, result.tx.outputs)
            /\ IsPrefix(tx.outputs_data, result.tx.outputs_data)
            /\ Len(result.tx.outputs) = Len(result.tx.outputs_data)
            /\ Len(result.tx.outputs) <= Len(tx.outputs) + 1
            /\ Len(result.tx.outputs) = Len(tx.outputs) + 1 =>
                  /\ result.tx.outputs[Len(result.tx.outputs)].lock
                       = ChangeLockScript(balancer)
                  /\ result.tx.outputs[Len(result.tx.outputs)].type_ = None
                  /\ result.tx.outputs_data[Len(result.tx.outputs)] = <<>>
            /\ IsPrefix(tx.cell_deps, result.tx.cell_deps)
            /\ IsPrefix(tx.witnesses, result.tx.witnesses)
            /\ result.tx.header_deps = tx.header_deps)
    /\ [][tx' = tx]_vars
    /\ [][inputs' # inputs =>
            /\ last_pass'.calls # <<>>
            /\ last_pass'.calls[Len(last_pass'.calls)].reserve
            /\ OutPointsOf(inputs')
                 = OutPointsOf(inputs) \o last_pass'.calls[Len(last_pass'.calls)].cells]_vars

\* C14 witness: a returned transaction whose seed has an input, a cell-dep and a
\* witness, with inputs the balancer added from two providers and a change output
C14_Witness ==
    /\ Returned
    /\ tx.inputs # <<>>
    /\ tx.cell_deps # <<>>
    /\ tx.witnesses # <<>>
    /\ Cardinality(AddedLocks) = 2
    /\ Len(result.tx.outputs) = Len(tx.outputs) + 1

\* locks with the since that lines 482-491 give them: the multisig lock of the runs, a
\* multisig lock with a since of two bytes, multisig locks with 20 and with 29 bytes of
\* args, and sighash locks with 20 and with 28 bytes of args
SinceSamples ==
    { <<LockB, 5>>,
      <<Script(MULTISIG_TYPE_HASH, Rep(3, 20) \o <<1, 2, 0, 0, 0, 0, 0, 0>>), 513>>,
      <<Script(MULTISIG_TYPE_HASH, Rep(3, 20)), 0>>,
      <<Script(MULTISIG_TYPE_HASH, Rep(3, 20) \o <<5, 0, 0, 0, 0, 0, 0, 0, 0>>), 0>>,
      <<LockA, 0>>,
      <<Script(SIGHASH_TYPE_HASH, Rep(1, 20) \o <<5, 0, 0, 0, 0, 0, 0, 0>>), 0>> }
ExpectedSince(lock) ==
    IF \E sample \in SinceSamples : sample[1] = lock
    THEN (CHOOSE sample \in SinceSamples : sample[1] = lock)[2]
    ELSE 0

\* C15: every input the balancer added has the since of the lock of its cell, the lock
\* of the provider it was collected for: the little-endian u64 of args[20..28] for a
\* multisig lock with 28 bytes of args, and 0 for any other lock.
C15_SincePropagation ==
    /\ \A sample \in SinceSamples : Since(sample[1]) = sample[2]
    /\ \A i \in 1..Len(inputs) :
          inputs[i].since = ExpectedSince(ChainCells[inputs[i].previous_output].output.lock)

\* C15 witness: a returned transaction with an input added from the multisig provider
\* and an input added from a sighash provider
C15_Witness ==
    /\ Returned
    /\ \E i, j \in 1..Len(inputs) :
          /\ ChainCells[inputs[i].previous_output].output.lock = LockB
          /\ inputs[i].since = 5
          /\ ChainCells[inputs[j].previous_output].output.lock = LockA
          /\ inputs[j].since = 0

\* the live cells no reserving call has returned that match the base query of a provider
LeftFor(lock) ==
    {op \in IndicesOf(cell_collector.live) :
        /\ op \notin cell_collector.reserved
        /\ ChainCells[op].output.lock = lock
        /\ ChainCells[op].output.type_ = None
        /\ ChainCells[op].data = <<>>}

\* C16: when balance_tx_capacity returns CapacityNotEnough, lock_script_idx is the last
\* provider, the last collector call of the last pass was for that provider and returned
\* no cells, and no provider of the list has an unreserved live cell that matches its
\* base query.
C16_CapacityNotEnoughMeansExhaustion ==
    (pc = "done" /\ result.err = "CapacityNotEnough") =>
        /\ lock_script_idx + 1 = Len(lock_scripts)
        /\ last_pass.calls # <<>>
        /\ last_pass.calls[Len(last_pass.calls)].query.lock = lock_scripts[Len(lock_scripts)][1]
        /\ last_pass.calls[Len(last_pass.calls)].cells = <<>>
        /\ \A j \in 1..Len(lock_scripts) : LeftFor(lock_scripts[j][1]) = {}
        /\ \A j \in 1..Len(balancer.capacity_provider) :
              LeftFor(balancer.capacity_provider[j][1]) = {}

\* C16 witness: CapacityNotEnough at the second of two providers, after the balancer
\* took every cell of both
C16_Witness ==
    /\ pc = "done"
    /\ result.err = "CapacityNotEnough"
    /\ Len(lock_scripts) = 2
    /\ Cardinality(AddedLocks) = 2
    /\ Cardinality(cell_collector.reserved) = Len(cell_collector.live)

\* C17: a pass that finds fee > min_fee with a change cell adds fee - min_fee to the
\* capacity of the change cell, calls no collector and adds no input, and the pass that
\* follows it finds fee = min_fee and returns the transaction.
C17_GrowChangeFixedPoint ==
    [][/\ (pc = "loop" /\ last_pass'.branch = "GrowChange") =>
             /\ IsSome(change_output)
             /\ last_pass'.fee_result.tag = "Ok"
             /\ last_pass'.fee_result.value > last_pass'.min_fee
             /\ change_output' =
                  Some([Unwrap(change_output) EXCEPT
                          !.capacity = @ + (last_pass'.fee_result.value - last_pass'.min_fee)])
             /\ last_pass'.calls = <<>>
             /\ inputs' = inputs
             /\ cell_collector' = cell_collector
             /\ pc' = "loop"
       /\ (pc = "loop" /\ last_pass.branch = "GrowChange") =>
             /\ pc' = "done"
             /\ last_pass'.branch = "ReturnBalanced"
             /\ last_pass'.fee_result.tag = "Ok"
             /\ last_pass'.fee_result.value = last_pass'.min_fee
             /\ result' = Ok(NewTx(tx, cell_deps, inputs, witnesses, change_output))
             /\ inputs' = inputs
             /\ change_output' = change_output]_vars

\* C17 witness: the change cell has just been grown, after the balancer added inputs,
\* and the pass about to run finds the fee at the minimum
C17_Witness ==
    /\ pc = "loop"
    /\ last_pass.branch = "GrowChange"
    /\ last_pass.fee_result.value - last_pass.min_fee > 1
    /\ inputs # <<>>
    /\ FeeBalanced(Pass.fee_result.value, Pass.min_fee)

\* C18: a pass that finds fee > min_fee with no change cell and a surplus that holds one
\* creates a change cell of capacity delta - extra_min_fee without collecting inputs, and
\* the pass that follows it returns that transaction, whatever the fee rate.
C18_CreateChangeFixedPoint ==
    [][/\ (pc = "loop" /\ last_pass'.branch = "CreateChange") =>
             /\ change_output = None
             /\ last_pass'.fee_result.value - last_pass'.min_fee
                  >= base_change_occupied_capacity + extra_min_fee
             /\ change_output' =
                  Some([base_change_output EXCEPT
                          !.capacity = last_pass'.fee_result.value - last_pass'.min_fee
                                         - extra_min_fee])
             /\ last_pass'.calls = <<>>
             /\ inputs' = inputs
             /\ cell_collector' = cell_collector
       /\ (pc = "loop" /\ last_pass.branch = "CreateChange") =>
             /\ pc' = "done"
             /\ result' = Ok(NewTx(tx, cell_deps, inputs, witnesses, change_output))]_vars

\* the lock groups of the call, by what the unlockers say of them
UnlockerOf(key) == unlockers[ScriptId(script_groups.lock_groups[key].script)]
Registered(key) == ScriptId(script_groups.lock_groups[key].script) \in DOMAIN unlockers
AlreadyUnlocked(key) == Registered(key) /\ UnlockerOf(key).unlocked
Matching(key) ==
    /\ Registered(key)
    /\ ~UnlockerOf(key).unlocked
    /\ script_groups.lock_groups[key].script.args \in UnlockerOf(key).matched
CallsOf(call, key) ==
    {i \in 1..Len(unlocker_calls) : unlocker_calls[i] = UnlockerCall(call, key)}
AskedTo(call) == {key \in DOMAIN script_groups.lock_groups : CallsOf(call, key) # {}}
Recorded == {not_matched[i] : i \in 1..Len(not_matched)}
GroupsWhere(Test(_)) ==
    {script_groups.lock_groups[key] : key \in {k \in DOMAIN script_groups.lock_groups : Test(k)}}
FillReturned ==
    /\ entry = "fill_placeholder_witnesses"
    /\ stage = "returned"
    /\ outcome.tag = "Ok"

\* C19 as stated: fill_placeholder_witnesses asks for a placeholder for exactly the lock
\* groups with a registered unlocker that are not unlocked and whose args match, and
\* every other lock group is in the returned unmatched list.
C19_EveryOtherGroupRecorded ==
    FillReturned =>
        /\ AskedTo("fill_placeholder_witness") = {k \in DOMAIN script_groups.lock_groups : Matching(k)}
        /\ Recorded = GroupsWhere(LAMBDA k : ~Matching(k))

\* C19 amended: when fill_placeholder_witnesses returns a transaction, it has asked for a
\* placeholder, once, for exactly the lock groups with a registered unlocker that are not
\* unlocked and whose args match; a group whose registered unlocker reports it unlocked
\* is neither filled nor recorded; every remaining lock group is in the returned list, once.
C19_WitnessFiller ==
    FillReturned =>
        /\ AskedTo("fill_placeholder_witness") = {k \in DOMAIN script_groups.lock_groups : Matching(k)}
        /\ \A k \in DOMAIN script_groups.lock_groups :
              Cardinality(CallsOf("fill_placeholder_witness", k)) <= 1
        /\ Recorded = GroupsWhere(LAMBDA k : ~Matching(k) /\ ~AlreadyUnlocked(k))
        /\ Len(not_matched) = Cardinality(Recorded)
        /\ \A k \in DOMAIN script_groups.lock_groups :
              AlreadyUnlocked(k) =>
                  /\ script_groups.lock_groups[k] \notin Recorded
                  /\ CallsOf("match_args", k) = {}

\* C19 witness: the filler returned after filling one group, skipping an unlocked one
\* and recording a third
C19_Witness ==
    /\ FillReturned
    /\ AskedTo("fill_placeholder_witness") # {}
    /\ \E k \in DOMAIN script_groups.lock_groups : AlreadyUnlocked(k)
    /\ not_matched # <<>>
    /\ SignaturePlaceholder \in {outcome.tx.witnesses[i] : i \in 1..Len(outcome.tx.witnesses)}

\* the call of a group's unlocker that fails, if any
ErrorOf(key) == IF Registered(key) THEN UnlockerOf(key).error ELSE ""
Failed(i) == unlocker_calls[i].call = ErrorOf(unlocker_calls[i].group)
\* the visit of the group ran to its end
Completed(key) == key \in visited /\ CallsOf(ErrorOf(key), key) = {}
TimesRecorded(key) ==
    Cardinality({i \in 1..Len(not_matched) : not_matched[i] = script_groups.lock_groups[key]})
Before(first, second, key) ==
    \A i \in CallsOf(first, key), j \in CallsOf(second, key) : i < j
UnlockRun == entry = "unlock_tx" /\ script_groups.tag = "Ok"

\* C20: for every lock group unlock_tx does exactly one of three things: it clears the
\* placeholder if a registered unlocker reports the group unlocked, without asking
\* match_args; it unlocks if a registered unlocker reports not unlocked and the args
\* match; it records the group in the returned list otherwise.  A failing unlocker call
\* is the last call of the run and its error is what unlock_tx returns.
C20_UnlockDriver ==
    UnlockRun =>
        /\ \A k \in DOMAIN script_groups.lock_groups :
              /\ Completed(k) =>
                    /\ Cardinality(CallsOf("clear_placeholder_witness", k))
                         + Cardinality(CallsOf("unlock", k)) + TimesRecorded(k) = 1
                    /\ CallsOf("clear_placeholder_witness", k) # {} <=> AlreadyUnlocked(k)
                    /\ CallsOf("unlock", k) # {} <=> Matching(k)
                    /\ AlreadyUnlocked(k) => CallsOf("match_args", k) = {}
                    /\ Registered(k) => Cardinality(CallsOf("is_unlocked", k)) = 1
                    /\ Before("is_unlocked", "match_args", k)
                    /\ Before("is_unlocked", "clear_placeholder_witness", k)
                    /\ Before("match_args", "unlock", k)
              /\ k \notin visited => CallsOf("is_unlocked", k) = {} /\ TimesRecorded(k) = 0
        /\ \A i \in 1..Len(unlocker_calls) :
              Failed(i) =>
                  /\ i = Len(unlocker_calls)
                  /\ stage = "returned"
                  /\ outcome = Err("Unlock", unlocker_calls[i].call, 0)
        /\ (stage = "returned" /\ outcome.tag = "Ok") =>
              /\ visited = DOMAIN script_groups.lock_groups
              /\ \A i \in 1..Len(unlocker_calls) : ~Failed(i)

\* C20 witness: unlock_tx returned after clearing one group, unlocking another and
\* recording a third
C20_Witness ==
    /\ UnlockRun
    /\ stage = "returned"
    /\ outcome.tag = "Ok"
    /\ AskedTo("clear_placeholder_witness") # {}
    /\ AskedTo("unlock") # {}
    /\ not_matched # <<>>
    /\ Signature \in {outcome.tx.witnesses[i] : i \in 1..Len(outcome.tx.witnesses)}

\* the locks of the seed's inputs that resolve
SeedLocks ==
    {ChainCells[tx.inputs[i].previous_output].output.lock :
        i \in {j \in 1..Len(tx.inputs) : get_cell(tx.inputs[j].previous_output) # None}}
\* how often the balancer's witnesses hold the value (a placeholder is not empty, the
\* padding is)
TimesAppended(ws, placeholder) == Cardinality({i \in 1..Len(ws) : ws[i] = placeholder})

\* C21: in every state of a run each provider's placeholder is in the balancer's
\* witnesses at most once, never for a provider whose lock locks an input of the seed,
\* and once exactly when the balancer has added inputs from a provider whose lock locks
\* no input of the seed; a pass appends the placeholder of the current provider, once,
\* exactly when it adds inputs and no earlier input has the provider's lock, and no pass
\* appends or removes any other placeholder.
C21_OnePlaceholderPerProvider ==
    /\ [](\A j \in 1..Len(lock_scripts) :
            /\ TimesAppended(witnesses, lock_scripts[j][2]) <= 1
            /\ lock_scripts[j][1] \in SeedLocks =>
                  TimesAppended(witnesses, lock_scripts[j][2]) = 0
            /\ TimesAppended(witnesses, lock_scripts[j][2]) = 1 <=>
                  (lock_scripts[j][1] \in AddedLocks /\ lock_scripts[j][1] \notin SeedLocks))
    /\ [][pc = "loop" =>
            \A j \in 1..Len(lock_scripts) :
                TimesAppended(witnesses', lock_scripts[j][2])
                  - TimesAppended(witnesses, lock_scripts[j][2])
                = IF /\ j = lock_script_idx + 1
                     /\ Len(inputs') > Len(inputs)
                     /\ lock_scripts[j][1] \notin SeedLocks \cup AddedLocks
                  THEN 1 ELSE 0]_vars

\* C21 witness: two passes added one input each from the same provider, and its
\* placeholder is in the witnesses once
C21_Witness ==
    /\ Returned
    /\ balancer.fee_rate = 1000
    /\ tx.inputs = <<>>
    /\ OutPointsOf(inputs) = <<1, 3>>
    /\ TimesAppended(witnesses, PlaceholderA) = 1
    /\ TimesAppended(result.tx.witnesses, PlaceholderA) = 1 + TimesAppended(tx.witnesses, PlaceholderA)

\* the fee as the mathematical sums give it
ExactFee(t) ==
    IF InputTotalOf(t) >= OutputTotalOf(t)
    THEN FeeResult("Ok", InputTotalOf(t) - OutputTotalOf(t))
    ELSE FeeResult("CapacityOverflow", OutputTotalOf(t) - InputTotalOf(t))

\* C22: no capacity computation wraps around silently.  When tx_fee returns a fee or a
\* CapacityOverflow, it is the one of the mathematical sums of the input values and of
\* the output capacities; a pass that gets CapacityOverflow(delta) asks the collector
\* for the mathematical delta + min_fee or ends in a panic; the capacity of a grown
\* change cell is the mathematical sum and fits the word; base_change_occupied +
\* extra_min_fee fits the word.
C22_CheckedArithmetic ==
    /\ []((pc = "loop" /\ AllResolve(Pass.new_tx)
             /\ Pass.fee_result.tag \in {"Ok", "CapacityOverflow"}) =>
            Pass.fee_result = ExactFee(Pass.new_tx))
    /\ [][(pc = "loop" /\ Unresolved = {} /\ Pass.fee_result.tag = "CapacityOverflow") =>
            \/ result'.err = "Panic"
            \/ /\ last_pass'.calls # <<>>
               /\ last_pass'.calls[1].query.min_total_capacity
                    = Pass.fee_result.value + Pass.min_fee]_vars
    /\ [][(pc = "loop" /\ last_pass'.branch = "GrowChange") =>
            /\ Unwrap(change_output').capacity
                 = Unwrap(change_output).capacity
                     + (last_pass'.fee_result.value - last_pass'.min_fee)
            /\ Unwrap(change_output').capacity < CapacityModulus]_vars
    /\ [](pc = "loop" => base_change_occupied_capacity + extra_min_fee < CapacityModulus)

\* 0-based index, in the list of a transaction built from the seed and the balancer's
\* list, of the first balancer entry that passes the test
FirstIndex(seed_len, seq, Test(_)) ==
    seed_len + (CHOOSE i \in 1..Len(seq) : Test(seq[i]) /\ \A j \in 1..(i - 1) : ~Test(seq[j])) - 1
PlaceholderIndex(ws, placeholder) ==
    FirstIndex(Len(tx.witnesses), ws, LAMBDA w : w = placeholder)
FirstInputIndex(lock) ==
    FirstIndex(Len(tx.inputs), inputs,
               LAMBDA input : ChainCells[input.previous_output].output.lock = lock)

\* C23: for a seed with no more witnesses than inputs, in every state of a run and in
\* the transaction it returns, the index of a provider's placeholder among the
\* witnesses is the index among the inputs of the first input the balancer added from
\* that provider.
C23_PlaceholderPosition ==
    Len(tx.witnesses) <= Len(tx.inputs) =>
        \A j \in 1..Len(lock_scripts) :
            TimesAppended(witnesses, lock_scripts[j][2]) > 0 =>
                /\ lock_scripts[j][1] \in AddedLocks
                /\ PlaceholderIndex(witnesses, lock_scripts[j][2])
                     = FirstInputIndex(lock_scripts[j][1])
                /\ Returned =>
                     /\ result.tx.witnesses[FirstInputIndex(lock_scripts[j][1]) + 1]
                          = lock_scripts[j][2]
                     /\ result.tx.inputs[FirstInputIndex(lock_scripts[j][1]) + 1]
                          = inputs[FirstInputIndex(lock_scripts[j][1]) + 1 - Len(tx.inputs)]

\* C23 witness: a returned transaction with a seed input, whose witness the padding
\* put in, and two inputs of one provider: the placeholder is at the index of the
\* first of them and an empty witness follows it
C23_Witness ==
    /\ Returned
    /\ tx.inputs # <<>>
    /\ tx.witnesses = <<>>
    /\ Len(inputs) = 2
    /\ \E j \in 1..Len(lock_scripts) :
          /\ TimesAppended(witnesses, lock_scripts[j][2]) = 1
          /\ PlaceholderIndex(witnesses, lock_scripts[j][2]) = Len(tx.inputs)
    /\ result.tx.witnesses[Len(tx.inputs)] = <<>>
    /\ result.tx.witnesses[Len(result.tx.inputs)] = <<>>

====
